---------------------------- MODULE Spec2Model ----------------------------
(***************************************************************************)
(* Model of vorpal's tab-completion engine, src/lib/autocomplete.js.       *)
(*                                                                         *)
(* A JavaScript string is a sequence of one-character strings, so that     *)
(* slicing, splitting, trimming, case folding and sorting are computed as  *)
(* the code computes them.  A JavaScript value that may be undefined, a    *)
(* string, an array of strings or an Error object is a record              *)
(* [kind, val].                                                            *)
(***************************************************************************)
EXTENDS Integers, Sequences, FiniteSets, TLC

(***************************************************************************)
(* Bounds of the model.                                                    *)
(***************************************************************************)
MaxTab == 3          \* Exec is disabled once the tab counter reaches it
MaxBack == 1         \* the cursor's greatest distance from the end of a session line
MaxLine == 4         \* longest raw line of the input-splitter runs
MaxCtx == 4          \* longest raw line of the command-resolver runs
MaxWord == 2         \* longest probe / candidate of the matcher runs
MaxCands == 2        \* longest candidate list of the matcher runs

(***************************************************************************)
(* Characters.  FMT stands for one terminal formatting code (an ANSI       *)
(* escape sequence), the thing strip-ansi removes; it is one token here.   *)
(***************************************************************************)
FMT == "ESC[m"

\* UTF-16 code unit of the characters the model uses (String comparison of
\* Array.prototype.sort and the case folding of toLowerCase go by it).
Code(c) ==
  CASE c = FMT -> 27
    [] c = " " -> 32
    [] c = "-" -> 45
    [] c = "A" -> 65
    [] c = "B" -> 66
    [] c = "P" -> 80
    [] c = "a" -> 97
    [] c = "b" -> 98
    [] c = "c" -> 99
    [] c = "d" -> 100
    [] c = "e" -> 101
    [] c = "f" -> 102
    [] c = "g" -> 103
    [] c = "h" -> 104
    [] c = "i" -> 105
    [] c = "l" -> 108
    [] c = "n" -> 110
    [] c = "o" -> 111
    [] c = "p" -> 112
    [] c = "r" -> 114
    [] c = "s" -> 115
    [] c = "t" -> 116
    [] c = "u" -> 117
    [] c = "v" -> 118
    [] c = "x" -> 120
    [] c = "y" -> 121
    [] c = "z" -> 122
    [] c = "|" -> 124

\* String.prototype.toLowerCase on one character
LowerChar(c) ==
  CASE c = "A" -> "a"
    [] c = "B" -> "b"
    [] c = "P" -> "p"
    [] OTHER -> c

ToLower(s) == [i \in 1..Len(s) |-> LowerChar(s[i])]

\* \s of the regular expressions, over the characters of the model
IsWs(c) == c = " "

MinOf(S) == CHOOSE x \in S : \A y \in S : x <= y

\* Body(v), with v evaluated once: a local variable of the code
Let(v, Body(_)) == CHOOSE y \in {Body(x) : x \in {v}} : TRUE

\* String.prototype.slice(from, to) with 0 <= from, 0 <= to
Slice(s, from, to) ==
  SubSeq(s, from + 1, IF to < Len(s) THEN to ELSE Len(s))

\* String.prototype.slice(from)
SliceFrom(s, from) == SubSeq(s, from + 1, Len(s))

\* strip-ansi: removes every formatting code
strip(s) == SelectSeq(s, LAMBDA c : c # FMT)

\* s.replace(/^\s+/g, '')
TrimLeft(s) ==
  LET nonWs == {i \in 1..Len(s) : ~IsWs(s[i])}
  IN  IF nonWs = {} THEN <<>> ELSE SubSeq(s, MinOf(nonWs), Len(s))

\* String.prototype.trim
Trim(s) ==
  LET nonWs == {i \in 1..Len(s) : ~IsWs(s[i])}
      last == CHOOSE x \in nonWs : \A y \in nonWs : y <= x
  IN  IF nonWs = {} THEN <<>> ELSE SubSeq(s, MinOf(nonWs), last)

\* new Array(n + 1).join(' ')
Spaces(n) == [i \in 1..n |-> " "]

\* String.prototype.split(d) for a one-character delimiter
RECURSIVE Split(_, _)
Split(s, d) ==
  LET at == {i \in 1..Len(s) : s[i] = d}
  IN  IF at = {} THEN <<s>>
      ELSE <<SubSeq(s, 1, MinOf(at) - 1)>>
             \o Split(SubSeq(s, MinOf(at) + 1, Len(s)), d)

\* Array.prototype.join(d)
RECURSIVE Join(_, _)
Join(parts, d) ==
  IF Len(parts) = 0 THEN <<>>
  ELSE IF Len(parts) = 1 THEN parts[1]
  ELSE parts[1] \o <<d>> \o Join(Tail(parts), d)

\* a < b in JavaScript's string order (code unit by code unit)
RECURSIVE StrLess(_, _)
StrLess(a, b) ==
  IF Len(b) = 0 THEN FALSE
  ELSE IF Len(a) = 0 THEN TRUE
  ELSE IF Code(a[1]) < Code(b[1]) THEN TRUE
  ELSE IF Code(a[1]) > Code(b[1]) THEN FALSE
  ELSE StrLess(Tail(a), Tail(b))

RECURSIVE SortInsert(_, _)
SortInsert(x, sorted) ==
  IF Len(sorted) = 0 THEN <<x>>
  ELSE IF StrLess(x, sorted[1]) THEN <<x>> \o sorted
  ELSE <<sorted[1]>> \o SortInsert(x, Tail(sorted))

\* Array.prototype.sort() with the default comparison
RECURSIVE JsSort(_)
JsSort(arr) ==
  IF Len(arr) = 0 THEN <<>>
  ELSE SortInsert(arr[Len(arr)], JsSort(SubSeq(arr, 1, Len(arr) - 1)))

(***************************************************************************)
(* JavaScript values.                                                      *)
(***************************************************************************)
Undefined == [kind |-> "undefined", val |-> <<>>]
StrV(s) == [kind |-> "string", val |-> s]
ListV(l) == [kind |-> "list", val |-> l]
\* an Error object (what a rejected promise usually carries)
ErrorV == [kind |-> "error", val |-> <<>>]
\* the outcome of a call that threw
Thrown == [kind |-> "TypeError", val |-> <<>>]

\* if (v): undefined and '' are falsy
Truthy(v) == v.kind # "undefined" /\ ~(v.kind = "string" /\ v.val = <<>>)

(***************************************************************************)
(* autocomplete.match                                                      *)
(***************************************************************************)
\* the candidates whose stripped, lower-cased start equals the probe
MatchesOf(strX, arrX) ==
  SelectSeq(arrX, LAMBDA a :
    ToLower(Slice(strip(a), 0, Len(strX))) = ToLower(strX))

\* the for-loop over k of match's go()
RECURSIVE MatchLoop(_, _, _)
MatchLoop(matches, k, furthest) ==
  IF k > Len(matches[1]) THEN furthest
  ELSE
    Let(ToLower(Slice(strip(matches[1]), 0, k)), LAMBDA curr :
      LET same == Cardinality({j \in 1..Len(matches) :
                    ToLower(Slice(strip(matches[j]), 0, Len(curr))) = curr})
      IN  IF same = Len(matches) THEN MatchLoop(matches, k + 1, curr)
          ELSE furthest)

\* match(str, arr): arr is a value; undefined becomes [], an array is sorted,
\* anything else truthy has no sort method and the call throws
match(str, arr) ==
  IF arr.kind \notin {"undefined", "list"} THEN Thrown
  ELSE
    Let(IF arr.kind = "list" THEN JsSort(arr.val) ELSE <<>>, LAMBDA arrX :
    Let(MatchesOf(str, arrX), LAMBDA matches :
      IF Len(matches) = 1 THEN StrV(matches[1] \o <<" ">>)
      ELSE IF Len(matches) = 0 THEN Undefined
      ELSE Let(MatchLoop(matches, Len(str), str), LAMBDA furthest :
             IF furthest # str THEN StrV(furthest) ELSE Undefined)))

\* the array as match leaves it behind: arr.sort() sorts the caller's array
SortedInPlace(arr) ==
  IF arr.kind = "list" THEN ListV(JsSort(arr.val)) ELSE arr

(***************************************************************************)
(* handleTabCounts                                                         *)
(***************************************************************************)
\* the counter after the call
TabCtrAfter(ctr, str) == IF str.kind = "list" THEN ctr + 1 ELSE 0

\* handleTabCounts surfacing the list on the first press already
\* (this._tabCtr >= 1 instead of this._tabCtr > 1)
handleTabCounts_FirstPress(ctr, str) ==
  IF str.kind = "list"
  THEN IF ctr + 1 >= 1
       THEN (IF Len(str.val) = 0 THEN Undefined ELSE str)
       ELSE Undefined
  ELSE str

\* the value handed to the completion callback
handleTabCounts(ctr, str) ==
  IF str.kind = "list"
  THEN IF ctr + 1 > 1
       THEN (IF Len(str.val) = 0 THEN Undefined ELSE str)
       ELSE Undefined
  ELSE str

(***************************************************************************)
(* getMatch, assembleInput, filterData                                     *)
(***************************************************************************)
getMatch(ctx, data) ==
  Let(TrimLeft(ctx), LAMBDA trimmed :
  Let(match(trimmed, data), LAMBDA m :
    LET prefix == Spaces(Len(ctx) - Len(trimmed))
    IN  IF m.kind = "TypeError" THEN Thrown
        ELSE IF Truthy(m) THEN StrV(prefix \o m.val)
        ELSE Undefined))

assembleInput(input) == strip(input.prefix \o input.context \o input.suffix)

\* filterData(str, data): data || [] then Array.prototype.filter, which an
\* Error object does not have
filterData(str, data) ==
  IF data.kind \notin {"undefined", "list"} THEN Thrown
  ELSE
    LET arr == IF data.kind = "list" THEN data.val ELSE <<>>
    IN  Let(Trim(str), LAMBDA ctx :
          ListV(SelectSeq(arr, LAMBDA item :
                  Slice(strip(item), 0, Len(ctx)) = ctx)))

(***************************************************************************)
(* parseInput, getSuffix, parseMatchSection                                *)
(***************************************************************************)
\* suffix.replace(/.+?(?=\s)/, ''): the first, shortest run of one or more
\* characters that is followed by whitespace
ReplaceUpToWs(s) ==
  LET J == {j \in 2..Len(s) : IsWs(s[j])}
  IN  IF J = {} THEN s ELSE SubSeq(s, MinOf(J), Len(s))

getSuffix(suffix) ==
  LET s1 == IF Slice(suffix, 0, 1) = <<" ">> THEN suffix
            ELSE ReplaceUpToWs(suffix)
  IN  Slice(s1, 1, Len(s1))

\* parseInput without prefix.push(''): the delimiter before the cursor's
\* segment is lost
parseInput_NoTrailingSection(str, idx) ==
  LET raw == str
      sliced == Slice(raw, 0, idx)
  IN  Let(Split(sliced, "|"), LAMBDA sections :
        [raw |-> raw,
         prefix |-> Join(SubSeq(sections, 1, Len(sections) - 1), "|"),
         suffix |-> getSuffix(SliceFrom(raw, idx)),
         context |-> sections[Len(sections)],
         match |-> 0,
         option |-> Undefined])

parseInput(str, idx) ==
  LET raw == str
      sliced == Slice(raw, 0, idx)
  IN  Let(Split(sliced, "|"), LAMBDA sections :
        [raw |-> raw,
         prefix |-> Join(SubSeq(sections, 1, Len(sections) - 1)
                           \o <<(<<>>)>>, "|"),
         suffix |-> getSuffix(SliceFrom(raw, idx)),
         context |-> sections[Len(sections)],
         match |-> 0,
         option |-> Undefined])

parseMatchSection(input) ==
  Let(Split(input.context, " "), LAMBDA all :
    LET last == all[Len(all)]
        parts == SubSeq(all, 1, Len(all) - 1)
        beforeLast == IF Len(parts) = 0 THEN <<>>
                      ELSE Trim(strip(parts[Len(parts)]))
    IN  [input EXCEPT
           !.option = IF Slice(beforeLast, 0, 1) = <<"-">>
                      THEN StrV(beforeLast) ELSE @,
           !.context = last,
           !.prefix = @ \o Join(parts, " ") \o <<" ">>])

(***************************************************************************)
(* The command registry (this.parent.commands), read-only for the engine.  *)
(* A command is [name, aliases, catch, options, autocomplete]; an option   *)
(* is [short, long, autocomplete] with <<>> for a spelling it lacks; a     *)
(* data provider is [shape, data] with shape one of                        *)
(*   "none"      no autocomplete configured                                *)
(*   "array"     a static list (data)                                      *)
(*   "sync"      function (str), returns its list                          *)
(*   "callback"  function (str, cb), delivers through cb                   *)
(*   "promise"   function (str), returns a promise                         *)
(*   "both"      function (str, cb) that also returns a promise            *)
(***************************************************************************)
NoProvider == [shape |-> "none", data |-> <<>>]
Static(list) == [shape |-> "array", data |-> list]
Fn(shape) == [shape |-> shape, data |-> <<>>]

Cmd(name, aliases, options, ac) ==
  [name |-> name, aliases |-> aliases, catch |-> FALSE,
   options |-> options, autocomplete |-> ac]

\* vorpal.catch('[words...]'): the catch-all command has the empty name
CatchAll(ac) ==
  [name |-> <<>>, aliases |-> <<>>, catch |-> TRUE,
   options |-> <<>>, autocomplete |-> ac]

Opt(short, long, ac) == [short |-> short, long |-> long, autocomplete |-> ac]

(***************************************************************************)
(* getCommandNames                                                         *)
(***************************************************************************)
RECURSIVE AllAliases(_)
AllAliases(cmds) ==
  IF Len(cmds) = 0 THEN <<>>
  ELSE cmds[1].aliases \o AllAliases(Tail(cmds))

getCommandNames(cmds) ==
  JsSort([i \in 1..Len(cmds) |-> cmds[i].name] \o AllAliases(cmds))

(***************************************************************************)
(* getMatchObject                                                          *)
(***************************************************************************)
\* String(undefined)
UndefinedStr == <<"u", "n", "d", "e", "f", "i", "n", "e", "d">>

\* commands.forEach(...) of getMatchObject: every name that starts the
\* trimmed context overwrites match and suffix and appends to prefix
RECURSIVE ScanCommands(_, _, _, _)
ScanCommands(names, i, trimmed, acc) ==
  IF i > Len(names) THEN acc
  ELSE
    LET cmd == names[i]
        hit == Slice(trimmed, 0, Len(cmd)) = cmd /\ Trim(cmd) # <<>>
    IN  ScanCommands(names, i + 1, trimmed,
          IF hit
          THEN [match |-> StrV(cmd),
                suffix |-> SliceFrom(trimmed, Len(cmd)),
                prefix |-> acc.prefix \o Slice(trimmed, 0, Len(cmd))]
          ELSE acc)

\* _.find(cmds, {_name: name}): the first command of that name, 0 if none
FindByName(cmds, name) ==
  LET hits == {i \in 1..Len(cmds) : cmds[i].name = name}
  IN  IF hits = {} THEN 0 ELSE MinOf(hits)

\* the forEach over the aliases: the last command having the alias, 0 if none
FindByAlias(cmds, name) ==
  LET hits == {i \in 1..Len(cmds) :
                 \E k \in 1..Len(cmds[i].aliases) : cmds[i].aliases[k] = name}
  IN  IF hits = {} THEN 0 ELSE CHOOSE x \in hits : \A y \in hits : y <= x

\* _.find(cmds, {_catch: true})
FindCatch(cmds) ==
  LET hits == {i \in 1..Len(cmds) : cmds[i].catch}
  IN  IF hits = {} THEN 0 ELSE MinOf(hits)

\* getMatchObject handing the catch-all the trimmed context (suffix = trimmed
\* instead of suffix = input.context)
getMatchObject_CatchTrimmed(input, names, cmds) ==
  Let(TrimLeft(input.context), LAMBDA trimmed :
  Let(ScanCommands(names, 1, trimmed,
        [match |-> Undefined, suffix |-> <<>>,
         prefix |-> Spaces(Len(input.context) - Len(trimmed))]), LAMBDA scan :
    LET asString == IF scan.match.kind = "string" THEN Trim(scan.match.val)
                    ELSE UndefinedStr
        byName == IF Truthy(scan.match) THEN FindByName(cmds, asString)
                  ELSE 0
        byAlias == IF byName # 0 THEN byName
                   ELSE FindByAlias(cmds, asString)
        matchObject == IF byAlias # 0 THEN byAlias ELSE FindCatch(cmds)
        suffix == IF byAlias = 0 THEN trimmed ELSE scan.suffix
    IN  IF matchObject # 0
        THEN [input EXCEPT !.match = matchObject,
                           !.prefix = @ \o scan.prefix,
                           !.context = suffix]
        ELSE input))

getMatchObject(input, names, cmds) ==
  Let(TrimLeft(input.context), LAMBDA trimmed :
  Let(ScanCommands(names, 1, trimmed,
        [match |-> Undefined, suffix |-> <<>>,
         prefix |-> Spaces(Len(input.context) - Len(trimmed))]), LAMBDA scan :
    LET asString == IF scan.match.kind = "string" THEN Trim(scan.match.val)
                    ELSE UndefinedStr
        byName == IF Truthy(scan.match) THEN FindByName(cmds, asString)
                  ELSE 0
        byAlias == IF byName # 0 THEN byName
                   ELSE FindByAlias(cmds, asString)
        matchObject == IF byAlias # 0 THEN byAlias ELSE FindCatch(cmds)
        suffix == IF byAlias = 0 THEN input.context ELSE scan.suffix
    IN  IF matchObject # 0
        THEN [input EXCEPT !.match = matchObject,
                           !.prefix = @ \o scan.prefix,
                           !.context = suffix]
        ELSE input))

(***************************************************************************)
(* getMatchData: which candidates the request asks for.  The result is     *)
(* [source, config]: source "flags" is the list of the command's option    *)
(* flags (no provider is consulted), "option" the provider of the option   *)
(* before the cursor, "command" the command's own provider.                *)
(***************************************************************************)
\* the loop over cmd.options
RECURSIVE OptionFlags(_)
OptionFlags(options) ==
  IF Len(options) = 0 THEN <<>>
  ELSE
    LET long == options[1].long
        short == options[1].short
    IN  (IF long = <<>> /\ short # <<>> THEN <<short>>
         ELSE IF long # <<>> THEN <<long>>
         ELSE <<>>) \o OptionFlags(Tail(options))

\* longMatch || shortMatch: 0 if the command has no such option
FindOption(options, opt) ==
  LET longs == {i \in 1..Len(options) : options[i].long = opt}
      shorts == {i \in 1..Len(options) : options[i].short = opt}
  IN  IF longs # {} THEN MinOf(longs)
      ELSE IF shorts # {} THEN MinOf(shorts)
      ELSE 0

\* getMatchData looking at the option before the cursor first, and at the
\* dash under the cursor only after it
getMatchData_OptionFirst(input, cmds) ==
  LET string == input.context
      cmd == cmds[input.match]
      midOption == Slice(Trim(string), 0, 1) = <<"-">>
      afterOption == input.option.kind # "undefined"
      opt == IF afterOption
             THEN FindOption(cmd.options, Trim(strip(input.option.val)))
             ELSE 0
  IN  IF opt # 0
      THEN [source |-> "option", config |-> cmd.options[opt].autocomplete]
      ELSE IF midOption
      THEN [source |-> "flags", config |-> Static(OptionFlags(cmd.options))]
      ELSE [source |-> "command", config |-> cmd.autocomplete]

getMatchData(input, cmds) ==
  LET string == input.context
      cmd == cmds[input.match]
      midOption == Slice(Trim(string), 0, 1) = <<"-">>
      afterOption == input.option.kind # "undefined"
      opt == IF afterOption
             THEN FindOption(cmd.options, Trim(strip(input.option.val)))
             ELSE 0
  IN  IF midOption
      THEN [source |-> "flags", config |-> Static(OptionFlags(cmd.options))]
      ELSE IF opt # 0
      THEN [source |-> "option", config |-> cmd.options[opt].autocomplete]
      ELSE [source |-> "command", config |-> cmd.autocomplete]

(***************************************************************************)
(* Inputs of the runs of the pure functions.                               *)
(***************************************************************************)
\* all strings over an alphabet, up to a length
StringsUpTo(A, n) == UNION {[1..k -> A] : k \in 0..n}

\* all lists of strings from a pool, up to a length
ListsUpTo(P, n) == UNION {[1..k -> P] : k \in 0..n}

MatchAlphabet == {"a", "A", "b", FMT}
MatchWords == StringsUpTo(MatchAlphabet, MaxWord)

LineAlphabet == {"a", " ", "|", FMT}
Lines == StringsUpTo(LineAlphabet, MaxLine)

CtxAlphabet == {"a", "b", " "}
CtxLines == StringsUpTo(CtxAlphabet, MaxCtx)

A1 == <<"a">>
AA == <<"a", "a">>
AB == <<"a", "b">>
B1 == <<"b">>

\* registries of the command-resolver runs
ResolveRegistries ==
  { <<Cmd(A1, <<>>, <<>>, NoProvider), Cmd(AB, <<>>, <<>>, NoProvider)>>,
    <<Cmd(A1, <<>>, <<>>, NoProvider), CatchAll(NoProvider)>>,
    <<Cmd(AB, <<B1>>, <<>>, NoProvider), Cmd(AA, <<>>, <<>>, NoProvider)>>,
    <<Cmd(AB, <<>>, <<>>, NoProvider), CatchAll(NoProvider),
      Cmd(B1, <<A1>>, <<>>, NoProvider)>> }

(***************************************************************************)
(* exec, up to the point where the candidates are asked for: parseInput,   *)
(* getCommandNames, the whole-context getMatch, getMatchObject and         *)
(* parseMatchSection.  stage is "name" when the context completes to a     *)
(* command name (exec returns early), "resolved" when a command was        *)
(* resolved, "unresolved" otherwise.                                       *)
(***************************************************************************)
execFront(cmds, str, idx) ==
  Let(parseInput(str, idx), LAMBDA parsed :
  Let(getCommandNames(cmds), LAMBDA names :
  Let(getMatch(parsed.context, ListV(names)), LAMBDA vorpalMatch :
  Let(getMatchObject(parsed, names, cmds), LAMBDA resolved :
    [str |-> str,
     idx |-> idx,
     parsed |-> parsed,
     names |-> names,
     vorpalMatch |-> vorpalMatch,
     stage |-> IF Truthy(vorpalMatch) THEN "name"
               ELSE IF resolved.match # 0 THEN "resolved"
               ELSE "unresolved",
     resolved |-> resolved,
     input |-> IF resolved.match # 0 THEN parseMatchSection(resolved)
               ELSE resolved]))))

(***************************************************************************)
(* State.  commands, tabCtr and req are the interactive session: the       *)
(* registry, the session's _tabCtr and the completion request in flight.   *)
(* call and ret are the argument and the result of one call of a pure      *)
(* function of the module.                                                 *)
(***************************************************************************)
VARIABLES commands, tabCtr, req, call, ret

vars == <<commands, tabCtr, req, call, ret>>

NoCall == [fn |-> "none"]
NotRun == [done |-> FALSE]

\* no completion request yet
NoRequest ==
  [active |-> FALSE,      \* a request has been made
   raw |-> <<>>,          \* exec's str
   idx |-> 0,             \* the readline cursor
   stage |-> "none",      \* execFront's stage
   input |-> parseInput(<<>>, 0),
   token |-> <<>>,        \* the context the candidates are matched against
   source |-> "none",     \* "names", or getMatchData's source
   shape |-> "none",      \* shape of the provider consulted
   invoked |-> 0,         \* calls of a provider function
   candidates |-> Undefined,  \* the data last handed to getMatch
   pending |-> {},        \* "cbk": cbk not yet called; "promise": not settled
   rejected |-> FALSE,    \* the provider's promise was rejected
   ctrSettle |-> 0,       \* the counter when the promise settled
   cbCount |-> 0,         \* invocations of exec's cb
   delivered |-> Undefined,   \* the res last passed to cb
   ends |-> 0,            \* calls of end (handleTabCounts)
   result |-> Undefined,  \* the str last passed to end
   ctr0 |-> 0,            \* the counter when exec was called
   threw |-> FALSE,       \* an exception escaped
   prevKind |-> "none",   \* kind of the preceding request's result
   prevSame |-> FALSE]    \* the preceding request had the same str and cursor

SessionIdle == commands = <<>> /\ tabCtr = 0 /\ req = NoRequest

(***************************************************************************)
(* exec's end(str): handleTabCounts, then cb(undefined, res).              *)
(***************************************************************************)
end(r, ctr, str) ==
  [ctr |-> TabCtrAfter(ctr, str),
   req |-> [r EXCEPT !.result = str,
                     !.delivered = handleTabCounts(ctr, str),
                     !.cbCount = @ + 1,
                     !.ends = @ + 1]]

(***************************************************************************)
(* The function exec passes to getMatchData (lines 43-51): getMatch on the *)
(* data, then end with the completed line or with the filtered list.       *)
(***************************************************************************)
callback(r, ctr, data) ==
  Let(getMatch(r.input.context, data), LAMBDA dataMatch :
  Let([r EXCEPT !.candidates = data], LAMBDA r1 :
    IF dataMatch.kind = "TypeError"
    THEN [ctr |-> ctr, req |-> [r1 EXCEPT !.threw = TRUE]]
    ELSE IF Truthy(dataMatch)
    THEN Let([r1 EXCEPT !.input.context = dataMatch.val], LAMBDA r2 :
           end(r2, ctr, StrV(assembleInput(r2.input))))
    ELSE end(r1, ctr, filterData(r.input.context, SortedInPlace(data)))))

(***************************************************************************)
(* handleDataFormat(str, config, callback), the part that runs inside the  *)
(* call: an array or no configuration is passed on at once; a function is  *)
(* called (res is what a "sync" function returns, callsCb whether a "both" *)
(* function will call its cbk) and what it delivers later is left pending. *)
(***************************************************************************)
handleDataFormat(r, ctr, config, res, callsCb) ==
  LET r1 == [r EXCEPT !.shape = config.shape]
      called == [r EXCEPT !.shape = config.shape, !.invoked = @ + 1]
  IN  CASE config.shape = "array" -> callback(r1, ctr, ListV(config.data))
        [] config.shape = "none" -> callback(r1, ctr, ListV(<<>>))
        [] config.shape = "sync" -> callback(called, ctr, res)
        [] config.shape = "callback" ->
             [ctr |-> ctr, req |-> [called EXCEPT !.pending = {"cbk"}]]
        [] config.shape = "promise" ->
             [ctr |-> ctr, req |-> [called EXCEPT !.pending = {"promise"}]]
        [] config.shape = "both" ->
             [ctr |-> ctr,
              req |-> [called EXCEPT !.pending =
                         IF callsCb THEN {"cbk", "promise"} ELSE {"promise"}]]

(***************************************************************************)
(* exec(str, cb), from what execFront computed (f) to the call of          *)
(* getMatchData or of end.  prev is the request before this one.           *)
(***************************************************************************)
exec(f, cmds, ctr, prev, res, callsCb) ==
  Let([NoRequest EXCEPT
         !.active = TRUE,
         !.raw = f.str,
         !.idx = f.idx,
         !.stage = f.stage,
         !.input = IF f.stage = "name" THEN f.parsed ELSE f.input,
         !.token = IF f.stage = "resolved" THEN f.input.context
                   ELSE f.parsed.context,
         !.ctr0 = ctr,
         !.prevKind = IF prev.active /\ prev.ends > 0
                      THEN prev.result.kind ELSE "none",
         !.prevSame = prev.active /\ prev.raw = f.str /\ prev.idx = f.idx],
      LAMBDA r0 :
    CASE f.stage = "name" ->
           Let([r0 EXCEPT !.source = "names",
                          !.candidates = ListV(f.names),
                          !.input.context = f.vorpalMatch.val], LAMBDA r1 :
             end(r1, ctr, StrV(assembleInput(r1.input))))
      [] f.stage = "unresolved" ->
           end([r0 EXCEPT !.source = "names",
                          !.candidates = ListV(f.names)],
               ctr, filterData(f.input.context, ListV(f.names)))
      [] f.stage = "resolved" ->
           Let(getMatchData(f.input, cmds), LAMBDA plan :
           Let([r0 EXCEPT !.source = plan.source], LAMBDA r1 :
             IF plan.source = "flags"
             THEN callback(r1, ctr, ListV(plan.config.data))
             ELSE handleDataFormat(r1, ctr, plan.config, res, callsCb))))

(***************************************************************************)
(* The session.                                                            *)
(***************************************************************************)
PUSH == <<"p", "u", "s", "h">>
PULL == <<"p", "u", "l", "l">>
HELP == <<"h", "e", "l", "p">>
FlagF == <<"-", "f">>
FlagForce == <<"-", "-", "f", "o", "r", "c", "e">>
FlagV == <<"-", "v">>

SessionRegistries ==
  { <<Cmd(PUSH, <<>>,
          <<Opt(FlagF, FlagForce, Fn("promise")), Opt(FlagV, <<>>, NoProvider)>>,
          Static(<<PUSH, PULL>>)),
      Cmd(PULL, <<>>, <<>>, Fn("sync")),
      Cmd(<<"c">>, <<>>, <<>>, Fn("callback")),
      Cmd(<<"r">>, <<>>, <<>>, Fn("promise")),
      Cmd(<<"b">>, <<>>, <<>>, Fn("both"))>>,
    <<Cmd(HELP, <<>>, <<>>, NoProvider),
      CatchAll(Static(<<PUSH, PULL>>))>> }

\* the lines typed; the cursor stands at most MaxBack characters before
\* the end of the line
SessionLines ==
  { <<"p", "u">>,
    <<"p", "u", "s">>,
    <<"P", "u">>,
    <<"p", "u", "s", "h", " ", "p", "u">>,
    <<"p", "u", "s", "h", " ", "-", "f">>,
    <<"p", "u", "s", "h", " ", "-", "f", " ", "-">>,
    <<"p", "u", "s", "h", " ", "-", "f", " ", "p">>,
    <<"p", "u", "s", "h", " ", "-", "v", " ", "p">>,
    <<"p", "u", "l", "l", " ", "p", "u">>,
    <<"c", " ", "p", "u">>,
    <<"r", " ", "p", "u">>,
    <<"b", " ", "p", "u">>,
    <<"c", "|", "p", "u">> }

Cursors(str) == {i \in 0..Len(str) : Len(str) - i <= MaxBack}

\* what a provider function returns or delivers
FnResults ==
  { ListV(<<PUSH, PULL>>), ListV(<<<<"p", "u", "b">>, <<"P", "u", "l", "l">>>>),
    ListV(<<>>), Undefined }

\* what a promise is rejected with
Rejections == { ErrorV, Undefined }

Init ==
  /\ commands \in SessionRegistries
  /\ tabCtr = 0
  /\ req = NoRequest
  /\ call = NoCall
  /\ ret = NotRun

\* the shape of the provider function the request will call, if any
ShapeCalled(f, cmds) ==
  IF f.stage # "resolved" THEN "none"
  ELSE LET plan == getMatchData(f.input, cmds)
       IN  IF plan.source = "flags" THEN "none" ELSE plan.config.shape

\* a tab press.  The host issues one request at a time.  A "sync" function
\* returns any of FnResults; a "both" function calls its cbk or does not.
Exec(str, idx) ==
  /\ req.pending = {}
  /\ tabCtr < MaxTab
  /\ \E f \in {execFront(commands, str, idx)} :
       \E shape \in {ShapeCalled(f, commands)} :
         \E res \in (IF shape = "sync" THEN FnResults ELSE {Undefined}) :
           \E callsCb \in (IF shape = "both" THEN BOOLEAN ELSE {FALSE}) :
             \E out \in {exec(f, commands, tabCtr, req, res, callsCb)} :
               /\ tabCtr' = out.ctr
               /\ req' = out.req
  /\ UNCHANGED <<commands, call, ret>>

\* the provider calls cbk(res): callback(res || [])
DeliverCallback(res) ==
  /\ "cbk" \in req.pending
  /\ \E out \in {callback([req EXCEPT !.pending = @ \ {"cbk"}], tabCtr,
                           IF Truthy(res) THEN res ELSE ListV(<<>>))} :
       /\ tabCtr' = out.ctr
       /\ req' = out.req
  /\ UNCHANGED <<commands, call, ret>>

\* the provider's promise is fulfilled with resp: callback(resp)
ResolvePromise(resp) ==
  /\ "promise" \in req.pending
  /\ \E out \in {callback([req EXCEPT !.pending = @ \ {"promise"},
                                       !.ctrSettle = tabCtr], tabCtr, resp)} :
       /\ tabCtr' = out.ctr
       /\ req' = out.req
  /\ UNCHANGED <<commands, call, ret>>

\* the provider's promise is rejected with err: callback(err)
RejectPromise(err) ==
  /\ "promise" \in req.pending
  /\ \E out \in {callback([req EXCEPT !.pending = @ \ {"promise"},
                                       !.rejected = TRUE,
                                       !.ctrSettle = tabCtr], tabCtr, err)} :
       /\ tabCtr' = out.ctr
       /\ req' = out.req
  /\ UNCHANGED <<commands, call, ret>>

Next ==
  \/ \E str \in SessionLines : \E idx \in Cursors(str) : Exec(str, idx)
  \/ \E res \in FnResults : DeliverCallback(res)
  \/ \E resp \in FnResults : ResolvePromise(resp)
  \/ \E err \in Rejections : RejectPromise(err)

Spec == Init /\ [][Next]_vars

(***************************************************************************)
(* Runs of autocomplete.match on every probe and candidate list.           *)
(***************************************************************************)
InitMatch ==
  /\ SessionIdle
  /\ call \in {[fn |-> "match", str |-> p, arr |-> l] :
                 p \in MatchWords, l \in ListsUpTo(MatchWords, MaxCands)}
  /\ ret = NotRun

CallMatch ==
  /\ call.fn = "match"
  /\ ~ret.done
  /\ ret' = [done |-> TRUE, val |-> match(call.str, ListV(call.arr))]
  /\ UNCHANGED <<commands, tabCtr, req, call>>

SpecMatch == InitMatch /\ [][CallMatch]_vars

(***************************************************************************)
(* Runs of parseInput and assembleInput on every raw line and cursor.      *)
(***************************************************************************)
InitParse ==
  /\ SessionIdle
  /\ call \in {[fn |-> "parseInput", raw |-> r, idx |-> i] :
                 r \in Lines, i \in 0..MaxLine}
  /\ call.idx <= Len(call.raw)
  /\ ret = NotRun

CallParse ==
  /\ call.fn = "parseInput"
  /\ ~ret.done
  /\ \E input \in {parseInput(call.raw, call.idx)} :
       ret' = [done |-> TRUE, input |-> input,
               assembled |-> assembleInput(input)]
  /\ UNCHANGED <<commands, tabCtr, req, call>>

SpecParse == InitParse /\ [][CallParse]_vars

(***************************************************************************)
(* Runs of the command resolver, as exec reaches it, on every registry of  *)
(* ResolveRegistries, raw line and cursor.                                 *)
(***************************************************************************)
InitResolve ==
  /\ SessionIdle
  /\ call \in {[fn |-> "resolve", cmds |-> c, raw |-> r, idx |-> i] :
                 c \in ResolveRegistries, r \in CtxLines, i \in 0..MaxCtx}
  /\ call.idx <= Len(call.raw)
  /\ ret = NotRun

CallResolve ==
  /\ call.fn = "resolve"
  /\ ~ret.done
  /\ \E f \in {execFront(call.cmds, call.raw, call.idx)} :
       ret' = [done |-> TRUE, stage |-> f.stage, parsed |-> f.parsed,
               resolved |-> f.resolved, input |-> f.input]
  /\ UNCHANGED <<commands, tabCtr, req, call>>

SpecResolve == InitResolve /\ [][CallResolve]_vars


(***************************************************************************)
(* Properties of the pure functions.                                       *)
(***************************************************************************)
IsPrefixOf(n, s) == Len(n) <= Len(s) /\ SubSeq(s, 1, Len(n)) = n

HasFormatting(s) == \E i \in 1..Len(s) : s[i] = FMT

\* the length up to which the stripped candidates of M agree, case folded
CommonLen(M) ==
  LET folded == [i \in 1..Len(M) |-> ToLower(strip(M[i]))]
      agree(k) == \A i \in 1..Len(M) :
                    /\ k <= Len(folded[i])
                    /\ SubSeq(folded[i], 1, k) = SubSeq(folded[1], 1, k)
  IN  CHOOSE k \in 0..Len(folded[1]) :
        agree(k) /\ \A j \in 0..Len(folded[1]) : agree(j) => j <= k

\* C5: when two or more candidates have the probe as a prefix (case folded,
\* stripped), match returns their longest common prefix if it is longer
\* than the probe and undefined if they disagree right after the probe, and
\* a returned string is, in the candidates' own casing, a prefix of every
\* matching candidate.
C5_MatchLongestCommonPrefix ==
  (ret.done /\ call.fn = "match") =>
    LET M == MatchesOf(call.str, call.arr)
        k == CommonLen(M)
    IN  Len(M) >= 2 =>
          /\ k > Len(call.str) =>
               /\ ret.val.kind = "string"
               /\ ToLower(ret.val.val) = ToLower(Slice(strip(M[1]), 0, k))
          /\ k = Len(call.str) => ret.val.kind = "undefined"
          /\ ret.val.kind = "string" =>
               \A i \in 1..Len(M) : IsPrefixOf(ret.val.val, strip(M[i]))

C10_SuffixDropsCurrentWord ==
  (ret.done /\ call.fn = "parseInput") =>
    LET rest == SliceFrom(call.raw, call.idx)
        ws == {j \in 1..Len(rest) : IsWs(rest[j])}
    IN  ret.input.suffix =
          IF ws = {} THEN <<>> ELSE SubSeq(rest, MinOf(ws) + 1, Len(rest))

\* the non-blank names and aliases of a registry
RegisteredNames(cmds) ==
  {n \in {cmds[i].name : i \in 1..Len(cmds)}
          \cup UNION {{cmds[i].aliases[k] : k \in 1..Len(cmds[i].aliases)} :
                        i \in 1..Len(cmds)} : Trim(n) # <<>>}

\* C8: with a catch-all registered, the resolver resolves the catch-all and
\* passes the whole original context on when no name or alias starts the
\* trimmed context, and resolves another command when one does.
C8_CatchAllFallback ==
  (ret.done /\ call.fn = "resolve" /\ ret.stage # "name"
     /\ \E i \in 1..Len(call.cmds) : call.cmds[i].catch) =>
    LET trimmed == TrimLeft(ret.parsed.context)
        m == ret.resolved.match
    IN  /\ m # 0
        /\ IF \E n \in RegisteredNames(call.cmds) : IsPrefixOf(n, trimmed)
           THEN ~call.cmds[m].catch
           ELSE /\ call.cmds[m].catch
                /\ ret.resolved.context = ret.parsed.context

\* the catch-all absorbs a context that has leading whitespace
C8_Witness ==
  /\ ret.done
  /\ call.fn = "resolve"
  /\ ret.stage = "resolved"
  /\ call.cmds[ret.resolved.match].catch
  /\ ret.parsed.context = <<" ", "b", "b">>
  /\ ret.resolved.context = <<" ", "b", "b">>

\* C9: whenever a command is resolved, prefix + context after getMatchObject
\* and parseMatchSection is the raw line up to the cursor.
C9_PrefixContextIsLineToCursor ==
  (ret.done /\ call.fn = "resolve" /\ ret.stage = "resolved") =>
    ret.input.prefix \o ret.input.context = Slice(call.raw, 0, call.idx)

(***************************************************************************)
(* Properties of the session.                                              *)
(***************************************************************************)
SameValue(a, b) == a.kind = b.kind /\ a.val = b.val

\* C1: a request whose result is a list increments the tab counter by one
\* and is handed the list only if the counter is then greater than 1, and
\* undefined otherwise; a request whose result is a string sets the counter
\* to 0 and is handed the string; hence a list is handed over only when the
\* preceding request also produced a list.
C1_TabTrackerPerRequest ==
  (req.active /\ req.ends >= 1) =>
    /\ req.result.kind = "list" =>
         /\ tabCtr = req.ctr0 + 1
         /\ req.delivered.kind \in {"list", "undefined"}
         /\ req.delivered.kind = "list" =>
              tabCtr > 1 /\ SameValue(req.delivered, req.result)
         /\ tabCtr <= 1 => req.delivered.kind = "undefined"
    /\ req.result.kind = "string" =>
         tabCtr = 0 /\ SameValue(req.delivered, req.result)
    /\ req.delivered.kind = "list" => req.prevKind = "list"

\* the probe of the request and the candidates that start with it, sorted
Probe(r) == TrimLeft(r.token)

ExactMatches(r) ==
  SelectSeq(JsSort(r.candidates.val), LAMBDA c : IsPrefixOf(Probe(r), strip(c)))

Ambiguous(r) ==
  /\ r.active
  /\ r.pending = {}
  /\ r.candidates.kind = "list"
  /\ Len(ExactMatches(r)) >= 2

\* the Matcher has no extension to offer: the probe is in lower case and
\* the candidates matching it, case folded, agree no further than the probe
NoExtension(r) ==
  /\ ToLower(Probe(r)) = Probe(r)
  /\ CommonLen(MatchesOf(Probe(r), r.candidates.val)) = Len(Probe(r))

\* the candidates were at hand inside exec: command names, option flags, a
\* static list or the return value of a synchronous function
Synchronous(r) == r.shape \in {"none", "array", "sync"}

C3_OneCallbackPerRequest ==
  req.active =>
    /\ req.cbCount <= 1
    /\ (req.pending = {} /\ ~req.threw) => req.cbCount = 1

\* C4: when a promise-based provider rejects, the request completes with
\* result undefined, no exception escapes and the tab counter moves as for
\* an empty list.
C4_RejectionIsNoCandidates ==
  (req.active /\ req.shape = "promise" /\ req.rejected) =>
    /\ ~req.threw
    /\ req.cbCount = 1
    /\ req.delivered.kind = "undefined"
    /\ tabCtr = req.ctrSettle + 1

\* one entry per declared option: the long form, else the short form
ExpectedFlags(options) ==
  [i \in 1..Len(options) |->
     IF options[i].long # <<>> THEN options[i].long ELSE options[i].short]

\* C7: when a command is resolved and the token under the cursor starts
\* with a dash, no provider is invoked and the candidates handed to the
\* Matcher are the command's option flags in declaration order, the long
\* form where there is one.
C7_OptionFlagsBypassProviders ==
  (req.active /\ req.stage = "resolved"
     /\ Slice(req.token, 0, 1) = <<"-">>) =>
    /\ req.invoked = 0
    /\ req.pending = {}
    /\ req.shape = "none"
    /\ req.source = "flags"
    /\ req.candidates.kind = "list"
    /\ req.candidates.val =
         ExpectedFlags(commands[req.input.match].options)

\* a dash typed right after the option -f of push
C7_Witness ==
  /\ req.active
  /\ req.stage = "resolved"
  /\ req.token = <<"-">>
  /\ req.input.option.kind = "string"
  /\ req.input.option.val = FlagF
  /\ req.candidates.kind = "list"
  /\ req.candidates.val = <<FlagForce, FlagV>>
  /\ req.cbCount = 1

=============================================================================
